---- MODULE Spec2Model ----
(***************************************************************************)
(* TicTacToe: bitboards, negamax / alpha-beta search, the string interface *)
(* and the Engine with its game loop.                                      *)
(*                                                                         *)
(* Representation.  An unsigned int (Board, BBoard) is the set of the      *)
(* positions of its 1 bits, so that                                        *)
(*     a | b  is  a \cup b,      a & b  is  a \cap b,                      *)
(*     a ^ b  is  xor(a, b),     a << k is  shl(a, k),   a >> k is         *)
(*     shr(a, k),                1 << k is  bit(k).                        *)
(* A signed int (BPlayer, Move, Eval) is an integer.  A string is the      *)
(* sequence of its character codes ("a1" is <<97, 49>>).  A std::optional  *)
(* is a set with at most one element.  The result of best_move with the    *)
(* random tie-break is the set of the pairs it can return.                 *)
(***************************************************************************)
EXTENDS Integers, FiniteSets, Sequences, TLC

VARIABLES
    _board,   \* Engine::_board
    pc,       \* position of main: "start", "loop", "reply", "done"; outside main "test",
              \* "called" after a call, and the kind of board that was formatted or parsed
    player,   \* main: the human's Player
    out,      \* main: the result line printed, "" before
    turn,     \* alternating play: the BPlayer who moves next
    last,     \* the Engine member called last: "reset", "set", "play", "play_best"; "" if none
    ret,      \* the value that call returned (TRUE for reset, which returns nothing)
    who,      \* the Player that call was given
    text,     \* the text Engine::play or Engine::set was given last
    opt_move,     \* the std::optional<Move> str2move returned in that call
    nplay,    \* number of Engine::play calls that returned true since the reset
    nbest,    \* number of Engine::play_best calls that returned true since the reset
    start,    \* the board after the last Engine::play that returned true
    opt_str,  \* the std::optional<std::string> board2str returned last
    opt_board \* the std::optional<Board> str2board returned last

\* what main leaves alone
calls == <<turn, last, ret, who, text, opt_move, nplay, nbest, start, opt_str, opt_board>>

vars == <<_board, pc, player, out, turn, last, ret, who, text, opt_move, nplay, nbest, start,
          opt_str, opt_board>>

----------------------------------------------------------------------------
(* Bounds of the model *)

\* longest input text, in characters
MaxLen == 3
\* longest opening played with Engine::play before the engine plays itself
MaxOpening == 2
\* most calls of Engine::play in one run of the Engine interface
MaxCalls == 4
\* most 1 bits of an unsigned int taken as a board
MaxRaw == 1
\* most characters other than '.' in a board text of 9 characters
MaxNonDots == 2
\* how far below 0 and above 8 the moves given to is_move go
MaxOut == 2

----------------------------------------------------------------------------
(* Types and constants: bitboard.hpp *)

\* enum class Player : bool { ONE, TWO }
P_ONE == FALSE
P_TWO == TRUE
Players == {P_ONE, P_TWO}

\* without the negation
other_player_same(p) == p

\* Player other(Player p)
other_player(p) == ~p

\* enum BPlayers : BPlayer { ONE = 0, TWO = 9, BOTH = 18 }
ONE == 0
TWO == 9
BOTH == 18

bplayer(p) == IF p = P_ONE THEN ONE ELSE TWO

\* enum BBoards : BBoard { EMPTY = 0, FULL = 0x1FF, LENGTH = 9 }
EMPTY == {}
FULL == 0..8
LENGTH == 9

\* unsigned int is 32 bits wide
WIDTH == 32

\* enum Evals : Eval { DRAW = 0, WON = 1 << BPlayers::BOTH }
DRAW == 0
WON == 2 ^ BOTH

----------------------------------------------------------------------------
(* Bit operations of C++ on the representation *)

shl(a, k) == {i + k : i \in {j \in a : j + k < WIDTH}}
shr(a, k) == {i - k : i \in {j \in a : j >= k}}
xor(a, b) == (a \ b) \cup (b \ a)

\* 1 << k, for a k below the width of int
bit(k) == {k}

\* the unsigned int with the value n
RECURSIVE BitsFrom(_, _)
BitsFrom(n, i) ==
    IF n = 0 THEN {}
    ELSE (IF n % 2 = 1 THEN {i} ELSE {}) \cup BitsFrom(n \div 2, i + 1)
BitsOf(n) == BitsFrom(n, 0)

\* ^ on int
RECURSIVE BitXor(_, _)
BitXor(a, b) ==
    IF a = 0 THEN b
    ELSE IF b = 0 THEN a
    ELSE ((a + b) % 2) + 2 * BitXor(a \div 2, b \div 2)

\* std::countr_one: number of consecutive 1 bits from bit 0
RECURSIVE countr_one_from(_, _)
countr_one_from(bb, i) == IF i \in bb THEN countr_one_from(bb, i + 1) ELSE i
countr_one(bb) == countr_one_from(bb, 0)

\* std::min
min(a, b) == IF b < a THEN b ELSE a

\* without the division
half_none(x) == x

\* int / 2, rounding towards zero
half(x) == IF x >= 0 THEN x \div 2 ELSE -((-x) \div 2)

\* std::tolower in the C locale
tolower(c) == IF c \in 65..90 THEN c + 32 ELSE c

----------------------------------------------------------------------------
(* Bitboard functions *)

\* with ONE for TWO
other_stuck(p) == BitXor(p, ONE)

\* BPlayer other(const BPlayer p)
other(p) == BitXor(p, TWO)

board(b1, b2) == b1 \cup shl(b2, TWO) \cup shl(b1 \cup b2, BOTH)

\* (b >> p) & FULL: bit i of the result, i < 9, is bit i + p of b
bboard(b, p) == {i \in FULL : (i + p) \in b}

\* taking the cell from the other player
play_overwrite(b, p, m) == (b \ bit(m + other(p))) \cup bit(m + p) \cup bit(m + BOTH)

\* without the bit in the field of both
play_no_both(b, p, m) == b \cup bit(m + p)

play(b, p, m) == b \cup bit(m + p) \cup bit(m + BOTH)

\* without the comparison with the field of both
is_legal_disjoint(b) == (bboard(b, ONE) \cap bboard(b, TWO)) = {}

is_legal(b) ==
    LET bb1 == bboard(b, ONE)
        bb2 == bboard(b, TWO)
        bb_both == bboard(b, BOTH)
    IN  (bb1 \cap bb2) = {} /\ (bb1 \cup bb2) = bb_both

is_full(b) == bboard(b, BOTH) = FULL

WINS == {BitsOf(\b000000111), BitsOf(\b000111000), BitsOf(\b111000000),
         BitsOf(\b100100100), BitsOf(\b010010010), BitsOf(\b001001001),
         BitsOf(\b100010001), BitsOf(\b001010100)}

\* with w & bb for (w & bb) == w
is_won_any(b, p) == LET bb == bboard(b, p) IN \E w \in WINS : (w \cap bb) # {}

is_won(b, p) == LET bb == bboard(b, p) IN \E w \in WINS : (w \cap bb) = w

\* without the range of m
is_move_unranged(b, m) == play(b, BOTH, m) # b

\* static_cast<unsigned int>(m) < 9 is false for a negative m
is_move(b, m) == (m >= 0 /\ m < 9) /\ play(b, BOTH, m) # b

find_first(bb) == countr_one(bb)

find_next(bb, m) == LET next == m + 1 IN next + countr_one(shr(bb, next))

----------------------------------------------------------------------------
(* Search *)

\* without the search: the value of the board as it stands
minimax_shallow(b, p) == IF is_won(b, p) THEN WON ELSE DRAW
alphabeta_shallow(b, p, alpha) == IF is_won(b, p) THEN WON ELSE DRAW

\* minimax and alphabeta return before their loop: the two tests they start with
returns_before_loop(b, p) == is_won(b, p) \/ is_full(b)

RECURSIVE minimax(_, _), minimax_loop(_, _, _, _)

\* the for loop of minimax: e and bb are its mutable variables
minimax_loop(b, o, e, bb) ==
    LET m == find_first(bb) IN
    IF m < TWO /\ e # -WON
    THEN minimax_loop(b, o, min(e, -minimax(play(b, o, m), o)), xor(bb, bit(m)))
    ELSE e

minimax(b, p) ==
    IF is_won(b, p) THEN WON
    ELSE IF is_full(b) THEN DRAW
    ELSE minimax_loop(b, other(p), WON, bboard(b, BOTH))

RECURSIVE alphabeta(_, _, _), alphabeta_loop(_, _, _, _, _)

\* the for loop of alphabeta: beta and bb are its mutable variables
alphabeta_loop(b, o, alpha, beta, bb) ==
    LET m == find_first(bb) IN
    IF m < TWO /\ beta > alpha
    THEN alphabeta_loop(b, o, alpha,
                        min(beta, -alphabeta(play(b, o, m), o, -beta)),
                        xor(bb, bit(m)))
    ELSE beta

alphabeta(b, p, alpha) ==
    IF is_won(b, p) THEN WON
    ELSE IF is_full(b) THEN DRAW
    ELSE half(alphabeta_loop(b, other(p), alpha, WON, bboard(b, BOTH)))

\* an iteration that keeps the lowest score, and one that keeps the last of
\* the moves with the highest score
best_move_step_worst(s, e, m, randomize) ==
    IF e < s[2] \/ s[1] = -1 THEN {<<m, e>>} ELSE {s}
best_move_step_last(s, e, m, randomize) ==
    IF e >= s[2] THEN {<<m, e>>} ELSE {s}

\* One iteration of the loop of best_move on the candidate m with score e,
\* from the pair s = <<mo, ev>>: the pairs the iteration can leave.  The coin
\* rand_bool(rand_engine) is flipped only when randomize && e == ev.
best_move_step(s, e, m, randomize) ==
    IF e > s[2] THEN {<<m, e>>}
    ELSE IF randomize /\ e = s[2] THEN {<<m, e>>, s}
    ELSE {s}

\* the for loop of best_move: S is the set of values <<mo, ev>> can have
RECURSIVE best_move_loop(_, _, _, _, _)
best_move_loop(b, p, randomize, S, bb) ==
    LET m == find_first(bb) IN
    IF m < TWO
    THEN LET e == alphabeta(play(b, p, m), p, -WON) IN
         best_move_loop(b, p, randomize,
                        UNION {best_move_step(s, e, m, randomize) : s \in S},
                        xor(bb, bit(m)))
    ELSE S

\* the pairs <<Move, Eval>> best_move can return
best_move(b, p, randomize) ==
    best_move_loop(b, p, randomize, {<<-1, -2 * WON>>}, bboard(b, BOTH))

----------------------------------------------------------------------------
(* String interface *)

\* "[a-d][1-3]" against a prefix of s
move_regex_loose(s) ==
    /\ Len(s) >= 2
    /\ tolower(s[1]) \in 97..100
    /\ s[2] \in 49..51

\* std::regex "^[a-cA-C][1-3]$" against the whole of s
move_regex(s) ==
    /\ Len(s) = 2
    /\ s[1] \in (97..99) \cup (65..67)
    /\ s[2] \in 49..51

\* without is_move
str2move_unchecked(b, s) ==
    IF ~move_regex(s) THEN {}
    ELSE {(s[2] - 49) * 3 + (tolower(s[1]) - 97)}

\* std::optional<Move> str2move(Board b, const std::string &s)
str2move(b, s) ==
    IF ~move_regex(s) THEN {}
    ELSE LET m == (s[2] - 49) * 3 + (tolower(s[1]) - 97) IN
         IF is_move(b, m) THEN {m} ELSE {}

\* the length alone
board_regex_loose(s) == Len(s) = 9

\* std::regex "^[.xoXO]{9}$" against the whole of s
board_regex(s) ==
    /\ Len(s) = 9
    /\ \A i \in 1..9 : s[i] \in {46, 120, 111, 88, 79}

\* the for loop of str2board: b and i are its mutable variables
RECURSIVE str2board_loop(_, _, _)
str2board_loop(s, b, i) ==
    IF i < LENGTH
    THEN LET c == tolower(s[i + 1]) IN
         str2board_loop(s,
                        IF c = 120 THEN play(b, ONE, i)
                        ELSE IF c = 111 THEN play(b, TWO, i)
                        ELSE b,
                        i + 1)
    ELSE b

\* std::optional<Board> str2board(const std::string &s)
str2board(s) ==
    IF ~board_regex(s) THEN {}
    ELSE {str2board_loop(s, EMPTY, 0)}

\* with the marks of the two players exchanged
board2str_swapped(b) ==
    IF ~is_legal(b) THEN {}
    ELSE {[i \in 1..LENGTH |->
              IF (i - 1) \in bboard(b, TWO) THEN 120
              ELSE IF (i - 1) \in bboard(b, ONE) THEN 111
              ELSE 46]}

\* std::optional<std::string> board2str(Board b)
board2str(b) ==
    IF ~is_legal(b) THEN {}
    ELSE LET one == bboard(b, ONE)
             two == bboard(b, TWO)
         IN  {[i \in 1..LENGTH |->
                  IF (one \cap bit(i - 1)) # {} THEN 120
                  ELSE IF (two \cap bit(i - 1)) # {} THEN 111
                  ELSE 46]}

----------------------------------------------------------------------------
(* Engine: each member maps the board to the new board and the value returned *)

Engine_is_won(b, p) == is_won(b, bplayer(p))
Engine_is_full(b) == is_full(b)
\* without is_full
Engine_is_finished_won(b) == Engine_is_won(b, P_ONE) \/ Engine_is_won(b, P_TWO)

\* without the wins
Engine_is_finished_full(b) == Engine_is_full(b)

Engine_is_finished(b) ==
    Engine_is_full(b) \/ Engine_is_won(b, P_ONE) \/ Engine_is_won(b, P_TWO)

Engine_reset(b) == [board |-> EMPTY, ret |-> TRUE]

\* bool set(std::string_view board); ob is what str2board returned
Engine_set(b, s) ==
    LET ob == str2board(s) IN
    IF ob # {}
    THEN [board |-> CHOOSE x \in ob : TRUE, ret |-> TRUE, ob |-> ob]
    ELSE [board |-> b, ret |-> FALSE, ob |-> ob]

\* with the mark of the other player
Engine_play_other(b, p, move) ==
    LET m == str2move(b, move) IN
    IF m # {}
    THEN [board |-> play(b, bplayer(other_player(p)), CHOOSE x \in m : TRUE),
          ret |-> TRUE, m |-> m]
    ELSE [board |-> b, ret |-> FALSE, m |-> m]

Engine_play(b, p, move) ==
    LET m == str2move(b, move) IN
    IF m # {}
    THEN [board |-> play(b, bplayer(p), CHOOSE x \in m : TRUE), ret |-> TRUE, m |-> m]
    ELSE [board |-> b, ret |-> FALSE, m |-> m]

\* std::string board() const
Engine_board(b) ==
    LET s == board2str(b) IN
    IF s # {} THEN CHOOSE x \in s : TRUE ELSE [i \in 1..LENGTH |-> 46]

\* without is_finished
Engine_play_best_unguarded(b, p) ==
    LET bp == bplayer(p) IN
    {[board |-> play(b, bp, r[1]), ret |-> TRUE] : r \in best_move(b, bp, TRUE)}

\* the outcomes play_best can have
Engine_play_best(b, p) ==
    IF Engine_is_finished(b) THEN {[board |-> b, ret |-> FALSE]}
    ELSE LET bp == bplayer(p) IN
         {[board |-> play(b, bp, r[1]), ret |-> TRUE] : r \in best_move(b, bp, TRUE)}

----------------------------------------------------------------------------
(* Inputs *)

\* a b c d C and 1 2 3 4
Chars == {97, 98, 99, 100, 67, 49, 50, 51, 52}
\* a d and 1
FewChars == {97, 100, 49}
\* every text of at most two of the Chars, and the longer ones of FewChars
Texts == UNION {[1..n -> IF n <= 2 THEN Chars ELSE FewChars] : n \in 0..MaxLen}

\* x o X O and y
NonDots == {120, 111, 88, 79, 121}

\* the texts of n characters with at most k characters of NonDots and dots
\* elsewhere
Marked(n, k) ==
    LET places == {P \in SUBSET (1..n) : Cardinality(P) <= k}
        marks == UNION {[P -> NonDots] : P \in places}
    IN  {[i \in 1..n |-> IF i \in DOMAIN f THEN f[i] ELSE 46] : f \in marks}

\* board texts: 9 characters with at most MaxNonDots of NonDots, and texts of
\* 0, 8 and 10 characters
BoardTexts ==
    Marked(LENGTH, MaxNonDots) \cup Marked(LENGTH - 1, 1) \cup Marked(LENGTH + 1, 1)
        \cup {<<>>}

\* "a1" .. "c3"
MoveTexts == {<<c, d>> : c \in 97..99, d \in 49..51}

PlayerOf(bp) == IF bp = ONE THEN P_ONE ELSE P_TWO

----------------------------------------------------------------------------
(* main: the game loop *)

\* no call made yet
NoCalls ==
    /\ player = P_ONE
    /\ out = ""
    /\ turn = ONE
    /\ last = ""
    /\ ret = TRUE
    /\ who = P_ONE
    /\ text = <<>>
    /\ opt_move = {}
    /\ nplay = 0
    /\ nbest = 0
    /\ start = EMPTY
    /\ opt_str = {}
    /\ opt_board = {}

Fresh == _board = EMPTY /\ NoCalls

Init == Fresh /\ pc = "start"

\* get_player, and the first move of the computer when the human plays o
GetPlayer ==
    /\ pc = "start"
    /\ \E p \in Players :
         /\ player' = p
         /\ IF p = P_ONE
            THEN _board' = _board
            ELSE \E r \in Engine_play_best(_board, other_player(p)) : _board' = r.board
    /\ pc' = "loop"
    /\ UNCHANGED <<out, calls>>

\* one line read in the loop: an illegal move is reported and the loop continues
HumanMove ==
    /\ pc = "loop"
    /\ ~Engine_is_finished(_board)
    /\ \E s \in Texts :
         LET r == Engine_play(_board, player, s) IN
         /\ _board' = r.board
         /\ pc' = IF r.ret THEN "reply" ELSE "loop"
    /\ UNCHANGED <<player, out, calls>>

\* e.play_best(other(player)); its result is not looked at
Reply ==
    /\ pc = "reply"
    /\ \E r \in Engine_play_best(_board, other_player(player)) : _board' = r.board
    /\ pc' = "loop"
    /\ UNCHANGED <<player, out, calls>>

\* the loop is left and the result is printed
Report ==
    /\ pc = "loop"
    /\ Engine_is_finished(_board)
    /\ out' = IF Engine_is_won(_board, other_player(player)) THEN "I win!"
              ELSE IF Engine_is_won(_board, player) THEN "You win!"
              ELSE "Game drawn!"
    /\ pc' = "done"
    /\ UNCHANGED <<_board, player, calls>>

Next == GetPlayer \/ HumanMove \/ Reply \/ Report

Spec == Init /\ [][Next]_vars

\* the call of play_best in the loop has returned
Replied == pc = "reply" /\ pc' = "loop"

\* main with a human who, whenever asked for a move, ends up typing one that
\* Engine::play accepts (a line that is rejected leaves every variable as it
\* was), and a program that goes on running: the call of play_best returns
\* and the result is printed
SpecLive ==
    /\ Spec
    /\ WF_vars(HumanMove)
    /\ WF_pc(Replied)
    /\ WF_vars(Report)

----------------------------------------------------------------------------
(* Alternating play on the bitboard: b = play(b, p, m); p = other(p), from  *)
(* the empty board with player ONE, on unoccupied cells, until the game is  *)
(* finished                                                                 *)

InitBoards == Fresh /\ pc = "test"

AltPlay ==
    /\ pc = "test"
    /\ ~Engine_is_finished(_board)
    /\ \E m \in 0..(LENGTH - 1) :
         /\ is_move(_board, m)
         /\ _board' = play(_board, turn, m)
    /\ turn' = other(turn)
    /\ UNCHANGED <<pc, player, out, last, ret, who, text, opt_move, nplay, nbest, start,
                 opt_str, opt_board>>

NextBoards == AltPlay

SpecBoards == InitBoards /\ [][NextBoards]_vars

----------------------------------------------------------------------------
(* Calls of the Engine                                                      *)

\* e.play(p, s)
DoPlay(p, s) ==
    LET r == Engine_play(_board, p, s) IN
    /\ _board' = r.board
    /\ last' = "play"
    /\ ret' = r.ret
    /\ who' = p
    /\ text' = s
    /\ opt_move' = r.m
    /\ nplay' = IF r.ret THEN nplay + 1 ELSE nplay
    /\ start' = IF r.ret THEN r.board ELSE start
    /\ UNCHANGED <<opt_str, opt_board>>

\* e.play_best(p)
DoPlayBest(p) ==
    \E r \in Engine_play_best(_board, p) :
        /\ _board' = r.board
        /\ last' = "play_best"
        /\ ret' = r.ret
        /\ who' = p
        /\ nbest' = IF r.ret THEN nbest + 1 ELSE nbest
        /\ UNCHANGED <<text, opt_move, nplay, start, opt_str, opt_board>>

\* e.reset()
DoReset ==
    /\ _board' = Engine_reset(_board).board
    /\ last' = "reset"
    /\ ret' = TRUE
    /\ nplay' = 0
    /\ nbest' = 0
    /\ start' = EMPTY
    /\ UNCHANGED <<who, text, opt_move, opt_str, opt_board>>

----------------------------------------------------------------------------
(* The engine against itself, as in the test of engine.hpp: after a reset,  *)
(* an opening of at most MaxOpening moves played with Engine::play by the   *)
(* two players in turn, then play_best by the two players in turn.  Each    *)
(* call is asserted to return true: the run ends with one that does not.    *)

InitSelf == Fresh /\ pc = "test"

Open ==
    /\ pc = "test"
    /\ ret
    /\ nbest = 0
    /\ nplay < MaxOpening
    /\ \E s \in MoveTexts : DoPlay(PlayerOf(turn), s)
    /\ turn' = IF ret' THEN other(turn) ELSE turn
    /\ UNCHANGED <<pc, player, out, nbest>>

SelfPlay ==
    /\ pc = "test"
    /\ ret
    /\ DoPlayBest(PlayerOf(turn))
    /\ turn' = IF ret' THEN other(turn) ELSE turn
    /\ UNCHANGED <<pc, player, out>>

NextSelf == Open \/ SelfPlay

SpecSelf == InitSelf /\ [][NextSelf]_vars

----------------------------------------------------------------------------
(* The Engine interface: reset, and play with any player and any text, on   *)
(* any board, finished or not, while fewer than MaxCalls calls of play have *)
(* returned true since the reset.  A call of play leaves its arguments and  *)
(* its results in who, text, ret and opt_move (pc = "called") until the     *)
(* caller has looked at them (Return).                                      *)

InitEngine == Fresh /\ pc = "test"

Reset ==
    /\ pc = "test"
    /\ DoReset
    /\ UNCHANGED <<pc, player, out, turn>>

Play ==
    /\ pc = "test"
    /\ nplay < MaxCalls
    /\ \E p \in Players : \E s \in Texts : DoPlay(p, s)
    /\ pc' = "called"
    /\ UNCHANGED <<player, out, turn, nbest>>

Return ==
    /\ pc = "called"
    /\ pc' = "test"
    /\ last' = ""
    /\ ret' = TRUE
    /\ who' = P_ONE
    /\ text' = <<>>
    /\ opt_move' = {}
    /\ UNCHANGED <<_board, player, out, turn, nplay, nbest, start, opt_str, opt_board>>

NextEngine == Reset \/ Play \/ Return

SpecEngine == InitEngine /\ [][NextEngine]_vars

----------------------------------------------------------------------------
(* Engine::set with every text of BoardTexts, on the boards of fewer than   *)
(* MaxNonDots marks that set has made.  As for play, a call leaves its      *)
(* argument and its results in text, ret and opt_board until the caller has *)
(* looked at them.                                                          *)

\* e.set(s)
DoSet(s) ==
    LET r == Engine_set(_board, s) IN
    /\ _board' = r.board
    /\ last' = "set"
    /\ ret' = r.ret
    /\ text' = s
    /\ opt_board' = r.ob
    /\ UNCHANGED <<who, opt_move, nplay, nbest, start, opt_str>>

InitSet == Fresh /\ pc = "test"

Set ==
    /\ pc = "test"
    /\ Cardinality(bboard(_board, BOTH)) < MaxNonDots
    /\ \E s \in BoardTexts : DoSet(s)
    /\ pc' = "called"
    /\ UNCHANGED <<player, out, turn>>

Looked ==
    /\ pc = "called"
    /\ pc' = "test"
    /\ last' = ""
    /\ ret' = TRUE
    /\ text' = <<>>
    /\ opt_board' = {}
    /\ UNCHANGED <<_board, player, out, turn, who, opt_move, nplay, nbest, start, opt_str>>

NextSet == Set \/ Looked

SpecSet == InitSet /\ [][NextSet]_vars

----------------------------------------------------------------------------
(* The members of the Engine in any order on any board, finished or not:    *)
(* reset, play and play_best with any player and any text, and set under    *)
(* the condition above.  The caller keeps the member called, the player and *)
(* the value returned until it has looked at them (Seen).                   *)

InitOps == Fresh /\ pc = "test"

\* e.play(p, s)
CallPlay ==
    /\ pc = "test"
    /\ \E p \in Players : \E s \in Texts :
         LET r == Engine_play(_board, p, s) IN
         /\ _board' = r.board
         /\ ret' = r.ret
         /\ who' = p
    /\ last' = "play"
    /\ pc' = "called"
    /\ UNCHANGED <<player, out, turn, text, opt_move, nplay, nbest, start, opt_str, opt_board>>

\* e.play_best(p)
CallBest ==
    /\ pc = "test"
    /\ \E p \in Players : \E r \in Engine_play_best(_board, p) :
         /\ _board' = r.board
         /\ ret' = r.ret
         /\ who' = p
    /\ last' = "play_best"
    /\ pc' = "called"
    /\ UNCHANGED <<player, out, turn, text, opt_move, nplay, nbest, start, opt_str, opt_board>>

Seen ==
    /\ pc = "called"
    /\ pc' = "test"
    /\ last' = ""
    /\ ret' = TRUE
    /\ who' = P_ONE
    /\ text' = <<>>
    /\ opt_board' = {}
    /\ UNCHANGED <<_board, player, out, turn, opt_move, nplay, nbest, start, opt_str>>

NextOps == Reset \/ Set \/ CallPlay \/ CallBest \/ Seen

SpecOps == InitOps /\ [][NextOps]_vars

----------------------------------------------------------------------------
(* The bitboard functions on boards of every kind: the boards play makes    *)
(* from the empty board on unoccupied cells, with the players in any order  *)
(* ("test"); those with one more play on an occupied cell, which play does  *)
(* not check ("over"); and unsigned ints of at most MaxRaw bits taken as    *)
(* boards, as in is_legal(1) ("raw").  board2str is applied to any of them  *)
(* and str2board to the string it returns.                                  *)

RECURSIVE RawBoards(_)
RawBoards(n) ==
    IF n = 0 THEN {EMPTY}
    ELSE LET R == RawBoards(n - 1) IN
         R \cup {b \cup bit(k) : b \in R, k \in 0..(BOTH + LENGTH - 1)}

InitPlay ==
    /\ _board \in RawBoards(MaxRaw)
    /\ pc = IF _board = EMPTY THEN "test" ELSE "raw"
    /\ NoCalls

\* b = play(b, p, m) after is_move(b, m)
PlayAny ==
    /\ pc = "test"
    /\ \E p \in {ONE, TWO} : \E m \in 0..(LENGTH - 1) :
         /\ is_move(_board, m)
         /\ _board' = play(_board, p, m)
    /\ UNCHANGED <<pc, player, out, calls>>

\* b = play(b, p, m) on an occupied cell
Overplay ==
    /\ pc = "test"
    /\ \E p \in {ONE, TWO} : \E m \in 0..(LENGTH - 1) :
         /\ ~is_move(_board, m)
         /\ _board' = play(_board, p, m)
    /\ pc' = "over"
    /\ UNCHANGED <<player, out, calls>>

\* board2str(b)
Format ==
    /\ pc \in {"test", "over", "raw"}
    /\ opt_str' = board2str(_board)
    /\ pc' = "formatted"
    /\ UNCHANGED <<_board, player, out, turn, last, ret, who, text, opt_move, nplay, nbest,
                   start, opt_board>>

\* str2board(*s)
Parse ==
    /\ pc = "formatted"
    /\ \E s \in opt_str : opt_board' = str2board(s)
    /\ pc' = "parsed"
    /\ UNCHANGED <<_board, player, out, turn, last, ret, who, text, opt_move, nplay, nbest,
                   start, opt_str>>

NextPlay == PlayAny \/ Overplay \/ Format \/ Parse

SpecPlay == InitPlay /\ [][NextPlay]_vars

----------------------------------------------------------------------------
(* The legal boards alone: every board play makes from the empty board on   *)
(* unoccupied cells, with the players in any order                          *)

InitLegal == Fresh /\ pc = "test"

NextLegal == PlayAny

SpecLegal == InitLegal /\ [][NextLegal]_vars

----------------------------------------------------------------------------
(* Notions the properties are stated with *)

\* the cells of b no player occupies
Unoccupied(b) == {m \in 0..8 : m \notin bboard(b, BOTH)}

\* number of marks on b
Marks(b) == Cardinality(bboard(b, BOTH))

Sign(x) == IF x > 0 THEN 1 ELSE IF x < 0 THEN -1 ELSE 0

Maximum(S) == CHOOSE x \in S : \A y \in S : y <= x

\* The outcome of the game under optimal play by both sides, for the player
\* p who made the last move on b (other(p) moves next):
\* p has won, or every move of the opponent leaves the opponent lost
RECURSIVE LastMoverWins(_, _), LastMoverLoses(_, _)
LastMoverWins(b, p) ==
    \/ is_won(b, p)
    \/ /\ Unoccupied(b) # {}
       /\ \A m \in Unoccupied(b) : LastMoverLoses(play(b, other(p), m), other(p))
\* p has not won and some move of the opponent wins for the opponent
LastMoverLoses(b, p) ==
    /\ ~is_won(b, p)
    /\ \E m \in Unoccupied(b) : LastMoverWins(play(b, other(p), m), other(p))

----------------------------------------------------------------------------
(* Properties *)

\* C2: on every unfinished board reached by alternating legal moves, with p
\* the player to move, every move best_move(b, p) can return has the largest
\* minimax value among the moves on the unoccupied cells.
C2_BestMoveIsOptimal ==
    (pc = "test" /\ ~Engine_is_finished(_board)) =>
        LET mm == {<<m, minimax(play(_board, turn, m), turn)>> : m \in Unoccupied(_board)}
            top == Maximum({x[2] : x \in mm})
        IN  \A r \in best_move(_board, turn, TRUE) : <<r[1], top>> \in mm

\* C2 witness: an unfinished board on which some move is not optimal and the
\* tie-break has more than one move to choose from
C2_Witness ==
    /\ pc = "test"
    /\ Marks(_board) = 4
    /\ ~Engine_is_finished(_board)
    /\ Cardinality(best_move(_board, turn, TRUE)) > 1
    /\ \E m \in Unoccupied(_board) :
         minimax(play(_board, turn, m), turn) = -WON

\* C4: on every reachable board that is neither won nor full, alphabeta with
\* the default alpha and minimax have the same sign, for each player.
C4_SameSign ==
    (pc = "test" /\ ~Engine_is_finished(_board)) =>
        \A p \in {ONE, TWO} :
            Sign(alphabeta(_board, p, -WON)) = Sign(minimax(_board, p))

\* C4 witness: a board on which the two differ in magnitude
C4_Witness ==
    /\ pc = "test"
    /\ Marks(_board) >= 3
    /\ ~Engine_is_finished(_board)
    /\ \E p \in {ONE, TWO} :
         /\ minimax(_board, p) = WON
         /\ alphabeta(_board, p, -WON) \in 1..(WON - 1)

\* C5: on every reachable board, with p the player who made the last move,
\* minimax(b, p) is WON, DRAW or -WON, and it is WON exactly when p has won
\* or can force a win, -WON exactly when other(p) can force a win.
C5_MinimaxIsOutcome ==
    pc = "test" =>
        LET p == other(turn)
            v == minimax(_board, p)
        IN  /\ v \in {WON, DRAW, -WON}
            /\ (v = WON) = LastMoverWins(_board, p)
            /\ (v = -WON) = LastMoverLoses(_board, p)

\* C5 witness: an unfinished board the opponent wins by force
C5_Witness ==
    /\ pc = "test"
    /\ Marks(_board) = 5
    /\ ~Engine_is_finished(_board)
    /\ minimax(_board, other(turn)) = -WON
    /\ ~(\E m \in Unoccupied(_board) : is_won(play(_board, turn, m), turn))

BoardXX == play(play(EMPTY, ONE, 0), ONE, 1)

C1_HumanNeverWins ==
    pc # "start" => (~Engine_is_won(_board, player) /\ out # "You win!")

\* C1 witness: a game the human, moving first, played to the end
C1_Witness ==
    /\ pc = "done"
    /\ player = P_ONE
    /\ out = "Game drawn!"
    /\ Marks(_board) = 9

\* C3: from the empty board, with play_best called for ONE, TWO, ONE, ... and
\* whatever the tie-breaks choose, every call returns true until nine moves
\* are made, the game is not finished before the ninth, and after the ninth
\* the board is full and no player has won.
C3_SelfPlayDraws ==
    (pc = "test" /\ nplay = 0) =>
        /\ Marks(_board) = nbest
        /\ (nbest < 9 => (ret /\ ~Engine_is_finished(_board)))
        /\ (nbest < 9 => (\E r \in Engine_play_best(_board, PlayerOf(turn)) : r.ret))
        /\ (nbest = 9 => (/\ Engine_is_full(_board)
                          /\ ~Engine_is_won(_board, P_ONE)
                          /\ ~Engine_is_won(_board, P_TWO)))

\* C3 witness: the ninth call of play_best has returned true
C3_Witness ==
    /\ pc = "test"
    /\ nplay = 0
    /\ last = "play_best"
    /\ ret
    /\ nbest = 9
    /\ Engine_is_finished(_board)

\* x on b2 and o on b1
BoardC8 == play(play(EMPTY, ONE, 4), TWO, 1)

\* C8: after the opening b2 by ONE and b1 by TWO, with play_best called for
\* ONE, TWO, ONE, TWO, ONE and whatever the tie-breaks choose, the five calls
\* return true, the game is not finished before the fifth, and after the
\* fifth ONE has won.
C8_ForcedWinIsConverted ==
    (pc = "test" /\ nplay = 2 /\ start = BoardC8 /\ last = "play_best") =>
        /\ nbest <= 5
        /\ (~ret => nbest = 5)
        /\ (nbest < 5 => (/\ ~Engine_is_finished(_board)
                          /\ \E r \in Engine_play_best(_board, PlayerOf(turn)) : r.ret))
        /\ (nbest = 5 => Engine_is_won(_board, P_ONE))

\* C8 witness: the fifth call has returned true
C8_Witness ==
    /\ pc = "test"
    /\ nplay = 2
    /\ start = BoardC8
    /\ last = "play_best"
    /\ ret
    /\ nbest = 5
    /\ turn = TWO

\* a column letter a..c in either case followed by a row digit 1..3
WellFormed(s) ==
    /\ Len(s) = 2
    /\ s[1] \in {97, 98, 99, 65, 66, 67}
    /\ s[2] \in {49, 50, 51}

\* the cell a well-formed text names: columns a b c, rows 1 2 3
Column(c) == CASE c \in {97, 65} -> 0 [] c \in {98, 66} -> 1 [] c \in {99, 67} -> 2
Row(d) == CASE d = 49 -> 0 [] d = 50 -> 1 [] d = 51 -> 2
CellOf(s) == 3 * Row(s[2]) + Column(s[1])

\* C9: every call of Engine::play, for any player and on any board, finished
\* or not, returns true exactly when the text is well-formed and names a cell
\* that is unoccupied before the call; when it returns false the board is
\* what it was before the call.
C9_PlayTrueIffLegal ==
    [][pc' = "called" =>
          /\ ret' = (WellFormed(text') /\ CellOf(text') \in Unoccupied(_board))
          /\ (~ret' => _board' = _board)]_vars

\* C9 witness: play has returned true for a player after the other has won
C9_Witness ==
    /\ pc = "called"
    /\ last = "play"
    /\ ret
    /\ Engine_is_won(_board, other_player(who))

\* C10: in every call, str2move returns the cell (digit - 1) * 3 +
\* (letter - 'a') when the text is two characters, a letter a..c in either
\* case and a digit 1..3, and that cell is unoccupied on the board, and the
\* invalid outcome for every other text; on the empty board "a1" gives 0,
\* "b2" gives 4, "c3" gives 8 and "d1" is invalid.
C10_Str2Move ==
    [][pc' = "called" =>
          LET s == text'
              letter == IF s[1] \in 65..90 THEN s[1] + 32 ELSE s[1]
              cell == (s[2] - 49) * 3 + (letter - 97)
          IN  /\ opt_move' = IF WellFormed(s) /\ cell \in Unoccupied(_board)
                             THEN {cell} ELSE {}
              /\ str2move(EMPTY, <<97, 49>>) = {0}
              /\ str2move(EMPTY, <<98, 50>>) = {4}
              /\ str2move(EMPTY, <<99, 51>>) = {8}
              /\ str2move(EMPTY, <<100, 49>>) = {}]_vars

\* C10 witness: "C3" has given cell 8 on a board with marks
C10_Witness ==
    /\ pc = "called"
    /\ text = <<67, 51>>
    /\ opt_move = {8}
    /\ Marks(_board) >= 3


\* the cells in the field of player p on b, p being ONE or TWO
Cells(b, p) == {c \in 0..8 : (c + p) \in b}
\* the cells in the field of both
Occupied(b) == {c \in 0..8 : (c + 18) \in b}

\* b violates the invariant of the three fields
Illegal(b) ==
    \/ \E c \in 0..8 : c \in Cells(b, 0) /\ c \in Cells(b, 9)
    \/ Occupied(b) # Cells(b, 0) \cup Cells(b, 9)

\* C11: board2str succeeds on every legal board, and str2board of the string
\* it returns is that board again.
C11_ParseAfterFormat ==
    /\ (pc = "formatted" /\ is_legal(_board)) => opt_str # {}
    /\ (pc = "parsed" /\ is_legal(_board)) => opt_board = {_board}

\* C11 witness: a full board with marks of the two players has been formatted
\* and parsed
C11_Witness ==
    /\ pc = "parsed"
    /\ Cardinality(Cells(_board, 0)) = 5
    /\ Cardinality(Cells(_board, 9)) = 4
    /\ opt_board # {}

\* C13: board2str returns the invalid outcome, and so no string of 9
\* characters, for every board with a cell in the fields of the two players
\* or whose field of both is not the union of the fields of the players.
C13_FormatRejectsIllegal ==
    (pc = "formatted" /\ Illegal(_board)) => opt_str = {}

\* C13 witness: a board with a cell in the fields of the two players has
\* been given to board2str
C13_Witness ==
    /\ pc = "formatted"
    /\ Cells(_board, 0) \cap Cells(_board, 9) # {}
    /\ Occupied(_board) = Cells(_board, 0) \cup Cells(_board, 9)


\* C12: str2board accepts a text exactly when it has 9 characters, each of
\* . x X o O, and then returns the board with the x cells in the field of
\* ONE and the o cells in the field of TWO, in the order of the cells 0..8;
\* for any other text it returns the invalid outcome, and Engine::set then
\* returns false and leaves the board of the engine as it was.
C12_SetAcceptsBoardTexts ==
    [][(pc' = "called" /\ last' = "set") =>
          LET s == text'
              accepted == Len(s) = 9 /\ \A i \in 1..9 : s[i] \in {46, 120, 88, 111, 79}
              xs == {c \in 0..8 : s[c + 1] \in {120, 88}}
              os == {c \in 0..8 : s[c + 1] \in {111, 79}}
              b == xs \cup {c + 9 : c \in os} \cup {c + 18 : c \in xs \cup os}
          IN  /\ ret' = accepted
              /\ opt_board' = IF accepted THEN {b} ELSE {}
              /\ _board' = IF accepted THEN b ELSE _board]_vars

\* C12 witness: set has returned false for a text of 9 characters and left
\* a board with marks
C12_Witness ==
    /\ pc = "called"
    /\ last = "set"
    /\ ~ret
    /\ Len(text) = 9
    /\ Cells(_board, 0) \cup Cells(_board, 9) # {}


\* the 8 lines of the board
Lines == {{0, 1, 2}, {3, 4, 5}, {6, 7, 8}, {0, 3, 6},
          {1, 4, 7}, {2, 5, 8}, {0, 4, 8}, {2, 4, 6}}
\* the cells of p hold a line
HasLine(b, p) == \E l \in Lines : l \subseteq Cells(b, p)

\* "oxoxoxoxo"
BoardOXO == {1, 3, 5, 7} \cup {c + 9 : c \in {0, 2, 4, 6, 8}} \cup 18..26

\* C14: on every legal board Engine::is_finished is true exactly when the
\* board is full or ONE has a line or TWO has a line; on "oxoxoxoxo" is_full,
\* is_won(TWO) and is_finished are true and is_won(ONE) is false.
C14_IsFinished ==
    pc = "test" =>
        /\ Engine_is_finished(_board) =
              (Occupied(_board) = 0..8 \/ HasLine(_board, 0) \/ HasLine(_board, 9))
        /\ (_board = BoardOXO =>
              /\ Engine_is_full(_board)
              /\ Engine_is_won(_board, P_TWO)
              /\ Engine_is_finished(_board)
              /\ ~Engine_is_won(_board, P_ONE))

\* C14 witness: the board "oxoxoxoxo"
C14_Witness == pc = "test" /\ _board = BoardOXO

\* C15: on every board, legal or not, and for each player p, is_won(b, p) is
\* true exactly when the cells of p hold one of the 8 lines, and it is the
\* same on the board that keeps only the field of p.
C15_IsWonIsALine ==
    \A p \in {ONE, TWO} :
        /\ is_won(_board, p) = HasLine(_board, p)
        /\ is_won(_board, p) = is_won({c + p : c \in Cells(_board, p)}, p)

\* C15 witness: ONE holds a diagonal and no more, TWO has cells and no line
C15_Witness ==
    /\ Cells(_board, 0) = {2, 4, 6}
    /\ Cardinality(Cells(_board, 9)) = 3
    /\ is_won(_board, ONE)
    /\ ~is_won(_board, TWO)

\* C16: every board made from the empty board by play on cells of 0..8 that
\* are unoccupied at the call, with the players in any order, satisfies
\* is_legal: no cell is in the fields of the two players and the field of
\* both is their union.
C16_PlayKeepsLegal ==
    pc = "test" => (is_legal(_board) /\ ~Illegal(_board))

\* C16 witness: one player has played the nine cells
C16_Witness == pc = "test" /\ Cells(_board, 0) = 0..8

\* the moves given to is_move
Moves == (-MaxOut)..(8 + MaxOut) \cup {-2147483647, 2147483647}

\* C17: on every legal board and for every integer m, is_move(b, m) is true
\* exactly when 0 <= m < 9 and no player has cell m; is_move(play(b, p, m), m)
\* is false for each player p and each m of 0..8.
C17_IsMove ==
    pc = "test" =>
        /\ \A m \in Moves :
              is_move(_board, m) =
                  (0 <= m /\ m < 9 /\ m \notin Cells(_board, 0) \cup Cells(_board, 9))
        /\ \A p \in {ONE, TWO} : \A m \in 0..8 : ~is_move(play(_board, p, m), m)

\* C17 witness: a board with cells of the two players and unoccupied cells
C17_Witness ==
    /\ pc = "test"
    /\ Cardinality(Cells(_board, 0)) = 2
    /\ Cardinality(Cells(_board, 9)) = 3
    /\ is_move(_board, 8)
    /\ ~is_move(_board, 0)

\* C18: other exchanges the two players and is its own inverse, on Player
\* and on the bit offsets 0 and 9, and the two forms agree on the player of
\* the game.
C18_OtherIsInvolution ==
    /\ other(ONE) = TWO
    /\ other(TWO) = ONE
    /\ \A p \in {ONE, TWO} : other(other(p)) = p
    /\ other_player(P_ONE) = P_TWO
    /\ other_player(P_TWO) = P_ONE
    /\ other_player(other_player(player)) = player
    /\ bplayer(other_player(player)) = other(bplayer(player))

\* C18 witness: the computer is about to move as other(player), the human
\* being player TWO
C18_Witness == pc = "reply" /\ player = P_TWO


\* C19 as it is stated: on every legal finished board and for each player p,
\* minimax and alphabeta return before examining a move, WON if p has won,
\* a negative value if other(p) has won, DRAW if the board is full and no
\* player has won.
C19_AsStated ==
    (pc = "test" /\ Engine_is_finished(_board)) =>
        \A p \in {ONE, TWO} :
            LET v == minimax(_board, p)
                w == alphabeta(_board, p, -WON)
            IN  /\ returns_before_loop(_board, p)
                /\ HasLine(_board, p) => (v = WON /\ w = WON)
                /\ (~HasLine(_board, p) /\ HasLine(_board, other(p))) => (v < DRAW /\ w < DRAW)
                /\ (~HasLine(_board, p) /\ ~HasLine(_board, other(p))) => (v = DRAW /\ w = DRAW)

\* C19: on every legal finished board and for each player p, minimax and
\* alphabeta return WON before their loop if p has won; if not and the board
\* is full they return DRAW before their loop, also when other(p) has won; if
\* not (other(p) has won and the board is not full) they enter their loop and
\* return -WON and -WON / 2.
C19_TerminalEval ==
    (pc = "test" /\ Engine_is_finished(_board)) =>
        \A p \in {ONE, TWO} :
            LET v == minimax(_board, p)
                w == alphabeta(_board, p, -WON)
            IN  IF HasLine(_board, p)
                THEN returns_before_loop(_board, p) /\ v = WON /\ w = WON
                ELSE IF Occupied(_board) = 0..8
                THEN returns_before_loop(_board, p) /\ v = DRAW /\ w = DRAW
                ELSE /\ HasLine(_board, other(p))
                     /\ ~returns_before_loop(_board, p)
                     /\ v = -WON
                     /\ w = -(WON \div 2)

\* C19 witness: a full board that ONE has won and TWO has not
C19_Witness ==
    /\ pc = "test"
    /\ Occupied(_board) = 0..8
    /\ HasLine(_board, 0)
    /\ ~HasLine(_board, 9)
    /\ minimax(_board, TWO) = DRAW


\* C20: every call of Engine::play_best returns false and leaves the board as
\* it was when the board is full or a player has won, and otherwise returns
\* true and puts the mark of the player on one unoccupied cell of 0..8: the
\* cell -1 that best_move returns on a full board is never played.
C20_PlayBestWhenFinished ==
    [][last' = "play_best" =>
          LET finished == \/ Occupied(_board) = 0..8
                          \/ HasLine(_board, 0)
                          \/ HasLine(_board, 9)
          IN  /\ ret' = ~finished
              /\ finished => _board' = _board
              /\ ~finished =>
                    \E m \in 0..8 :
                        /\ m \notin Occupied(_board)
                        /\ _board' = _board \cup {m + bplayer(who'), m + 18}]_vars

\* C20 witness: play_best has returned false on a full board
C20_Witness ==
    /\ last = "play_best"
    /\ ~ret
    /\ Occupied(_board) = 0..8


\* C21: on every legal board that is not full and for each player p, every
\* pair best_move can return with the random tie-break has the Eval that
\* best_move returns without it; its move is an unoccupied cell whose
\* alphabeta score is that Eval; and every unoccupied cell with the largest
\* score is the move of a pair it can return.
C21_TieBreakKeepsEval ==
    (pc = "test" /\ Occupied(_board) # 0..8) =>
        \A p \in {ONE, TWO} :
            LET free == (0..8) \ Occupied(_board)
                sc == {<<m, alphabeta(_board \cup {m + p, m + 18}, p, -WON)>> : m \in free}
                top == Maximum({x[2] : x \in sc})
                R == best_move(_board, p, TRUE)
                D == best_move(_board, p, FALSE)
            IN  /\ R # {}
                /\ Cardinality(D) = 1
                /\ \A r \in R : \A d \in D : r[2] = d[2]
                /\ \A r \in R : r[1] \in free /\ r \in sc
                /\ \A x \in sc : x[2] = top => x \in R

\* C21 witness: a board on which the tie-break chooses among several cells
\* and some unoccupied cell has a lower score
C21_Witness ==
    /\ pc = "test"
    /\ Cardinality(Cells(_board, 0)) = 3
    /\ Cardinality(Cells(_board, 9)) = 1
    /\ Cardinality(best_move(_board, TWO, TRUE)) > 1
    /\ Cardinality(best_move(_board, TWO, TRUE)) < 5


\* number of cells in the field of player p on b
Count(b, p) == Cardinality(Cells(b, p))

\* C22: in the game loop the number of x marks is the number of o marks or
\* one more in every state, and every step that changes the board adds one
\* mark to one empty cell: the mark of the human in the step that reads a
\* move and the mark of the computer in the others, an x when the numbers
\* are equal and an o when there is one more x, so that neither of the two
\* places two marks in a row.
C22_StrictAlternation ==
    /\ [](Count(_board, 0) - Count(_board, 9) \in {0, 1})
    /\ [][_board' # _board =>
            LET mover == IF pc = "loop" THEN player' ELSE ~player'
                mark == IF Count(_board, 0) = Count(_board, 9) THEN 0 ELSE 9
            IN  /\ mark = (IF mover = P_ONE THEN 0 ELSE 9)
                /\ \E c \in (0..8) \ Occupied(_board) :
                       _board' = _board \cup {c + mark, c + 18}]_vars

\* C22 witness: a game the computer opened and the two played to the ninth
\* mark
C22_Witness ==
    /\ pc = "done"
    /\ player = P_TWO
    /\ Count(_board, 0) = 5
    /\ Count(_board, 9) = 4


\* C23 as it is stated: on every legal board, for each player p and each
\* occupied cell m of 0..8, play(b, p, m) is a board that is not legal.
C23_AsStated ==
    pc = "test" =>
        \A p \in {ONE, TWO} : \A m \in Occupied(_board) : ~is_legal(play(_board, p, m))

\* C23: on every legal board, for each player p and each occupied cell m of
\* 0..8, play(b, p, m) is b itself, and legal, when the cell is p's own, and
\* a board that is not legal, with m in the fields of the two players, when
\* the cell is the other player's; a board made that way is legal or has a
\* cell in the fields of the two players.
C23_PlayOnOccupied ==
    /\ pc = "test" =>
          \A p \in {ONE, TWO} : \A m \in Occupied(_board) :
              LET c == play(_board, p, m) IN
              IF m \in Cells(_board, p)
              THEN c = _board /\ is_legal(c)
              ELSE ~is_legal(c) /\ m \in Cells(c, 0) \cap Cells(c, 9)
    /\ pc = "over" =>
          IF is_legal(_board)
          THEN Occupied(_board) # {} /\ ~Illegal(_board)
          ELSE Cells(_board, 0) \cap Cells(_board, 9) # {}

\* C23 witness: play on an occupied cell has left a legal board with marks of
\* the two players
C23_Witness ==
    /\ pc = "over"
    /\ is_legal(_board)
    /\ Cells(_board, 0) # {}
    /\ Cells(_board, 9) # {}


Minimum(S) == CHOOSE x \in S : \A y \in S : x <= y

\* b with the mark of p on the cell m
Put(b, p, m) == b \cup {m + p, m + 18}

\* For the player p who made the last move on b, in one walk of the whole
\* game tree:
\*   h  the search without the cutoff: WON if p has won, DRAW if b is full,
\*      otherwise half of the least of -h over the boards the other player
\*      can make;
\*   s  the end of the game: 1 if p wins, -1 if p loses, 0 for a draw;
\*   k  the number of plies to the end when the winner wins as fast as
\*      possible and the loser delays as long as possible (0 for a draw).
RECURSIVE Unpruned(_, _)
Unpruned(b, p) ==
    IF HasLine(b, p) THEN [h |-> WON, s |-> 1, k |-> 0]
    ELSE IF Occupied(b) = 0..8 THEN [h |-> DRAW, s |-> 0, k |-> 0]
    ELSE LET o == 9 - p
             C == {Unpruned(Put(b, o, m), o) : m \in (0..8) \ Occupied(b)}
             least == Minimum({-c.h : c \in C})
             wins == {c \in C : c.s = 1}
         IN  [h |-> IF least >= 0 THEN least \div 2 ELSE -((-least) \div 2),
              s |-> IF wins # {} THEN -1
                    ELSE IF \E c \in C : c.s = 0 THEN 0
                    ELSE 1,
              k |-> IF wins # {} THEN 1 + Minimum({c.k : c \in wins})
                    ELSE IF \E c \in C : c.s = 0 THEN 0
                    ELSE 1 + Maximum({c.k : c \in C})]

\* C24: on every reachable board, with p the player who made the last move,
\* alphabeta with the default alpha is h, the same recursion without the
\* cutoff; it is 0 for a draw and otherwise WON / 2^k, negated when p loses,
\* with k <= 9 the number of plies to the end when the winner wins as fast
\* as possible and the loser delays as long as possible, and it is never 0
\* when a player wins.
C24_PruningKeepsScore ==
    pc = "test" =>
        LET p == 9 - turn
            a == alphabeta(_board, p, -WON)
            u == Unpruned(_board, p)
        IN  /\ a = u.h
            /\ u.k <= 9
            /\ a * (2 ^ u.k) = u.s * WON
            /\ (a = 0) = (u.s = 0)

\* C24 witness: an unfinished board the last mover wins in four plies
C24_Witness ==
    /\ pc = "test"
    /\ ~Engine_is_finished(_board)
    /\ alphabeta(_board, 9 - turn, -WON) = WON \div 16


\* the unoccupied cells of b on which a mark of p completes a line of p
Completing(b, p) == {m \in (0..8) \ Occupied(b) : HasLine(Put(b, p, m), p)}

\* C25: on every reachable board that is not finished, with p the player to
\* move: when some unoccupied cell completes a line of p, every pair
\* best_move can return, with the tie-break and without it, has such a cell
\* as its move and WON as its Eval; when no cell does, the Eval is less than
\* WON.
C25_FasterWins ==
    (pc = "test" /\ ~Engine_is_finished(_board)) =>
        LET R == best_move(_board, turn, TRUE) \cup best_move(_board, turn, FALSE)
            winning == Completing(_board, turn)
        IN  /\ R # {}
            /\ \A r \in R :
                 IF winning # {}
                 THEN r[1] \in winning /\ r[2] = WON
                 ELSE r[2] < WON

\* C25 witness: the player to move can complete a line on a cell that is not
\* the lowest unoccupied one, and the other player can too
C25_Witness ==
    /\ pc = "test"
    /\ ~Engine_is_finished(_board)
    /\ Completing(_board, turn) # {}
    /\ Completing(_board, 9 - turn) # {}
    /\ \E m \in (0..8) \ Occupied(_board) : \A w \in Completing(_board, turn) : m < w


\* the unoccupied cells of b after a mark of p on which the other player
\* cannot complete a line at once
Safe(b, p) == {m \in (0..8) \ Occupied(b) : Completing(Put(b, p, m), 9 - p) = {}}

\* C26: on every reachable board that is not finished, with p the player to
\* move: when no unoccupied cell completes a line of p and there are moves
\* after which the other player cannot complete a line at once, the move of
\* every pair best_move can return, with the tie-break and without it, is
\* one of these.
C26_SlowerLosses ==
    (pc = "test" /\ ~Engine_is_finished(_board)
        /\ Completing(_board, turn) = {} /\ Safe(_board, turn) # {}) =>
        LET R == best_move(_board, turn, TRUE) \cup best_move(_board, turn, FALSE)
        IN  /\ R # {}
            /\ \A r \in R : r[1] \in Safe(_board, turn)

\* C26 witness: the player to move cannot win at once, loses whatever the
\* move, and can keep the other player from winning at once
C26_Witness ==
    /\ pc = "test"
    /\ ~Engine_is_finished(_board)
    /\ Completing(_board, turn) = {}
    /\ Safe(_board, turn) # {}
    /\ Safe(_board, turn) # (0..8) \ Occupied(_board)
    /\ \A r \in best_move(_board, turn, FALSE) : r[2] < DRAW


\* the three results main prints
Results == {"I win!", "You win!", "Game drawn!"}

\* C27: in the game loop every text Engine::play accepts adds one mark and
\* every text it rejects leaves the board as it was; every step adds one
\* mark to an empty cell or none, removes none, and play_best adds one
\* exactly when the game is not finished, and always returns, so that the
\* marks placed are at most 9; a result is printed only on leaving the loop,
\* with the game finished, and it is one of the three results and the one
\* the board shows;
\* and when the human ends up typing a legal move whenever asked, the loop
\* is left and a result printed.
C27_LoopTerminates ==
    /\ [](/\ Marks(_board) <= 9
          /\ pc = "loop" =>
                \A s \in Texts :
                    LET r == Engine_play(_board, player, s) IN
                    IF r.ret
                    THEN \E c \in (0..8) \ Occupied(_board) :
                             r.board = Put(_board, bplayer(player), c)
                    ELSE r.board = _board
          /\ pc = "reply" => Engine_play_best(_board, ~player) # {}
          /\ pc # "done" => out = ""
          /\ pc = "done" =>
                /\ Occupied(_board) = 0..8 \/ HasLine(_board, 0) \/ HasLine(_board, 9)
                /\ out \in Results
                /\ (out = "I win!") = HasLine(_board, bplayer(~player))
                /\ (out = "You win!") = HasLine(_board, bplayer(player))
                /\ (out = "Game drawn!") =
                       (~HasLine(_board, 0) /\ ~HasLine(_board, 9)))
    /\ [][/\ Occupied(_board) \subseteq Occupied(_board')
          /\ Marks(_board') \in {Marks(_board), Marks(_board) + 1}
          /\ pc = "reply" =>
                (Marks(_board') = Marks(_board)) =
                    (Occupied(_board) = 0..8 \/ HasLine(_board, 0) \/ HasLine(_board, 9))
          /\ pc = "loop" /\ pc' = "reply" => Marks(_board') = Marks(_board) + 1
          /\ pc' = "done" => _board' = _board]_vars
    /\ (pc = "loop") ~> (pc = "done" /\ out \in Results)

\* C27 witness: the loop was left with a line of the computer and unoccupied
\* cells
C27_Witness ==
    /\ pc = "done"
    /\ out = "I win!"
    /\ Marks(_board) < 9


\* the text of 9 characters that shows b: x, o and . for the cells of ONE,
\* of TWO and of no player
Shown(b) ==
    [i \in 1..9 |-> IF (i - 1) \in Cells(b, 0) THEN 120
                    ELSE IF (i - 1) \in Cells(b, 9) THEN 111
                    ELSE 46]

\* C28: after the members reset, set, play and play_best of a fresh Engine
\* have been called in any order with any arguments, the board of the Engine
\* satisfies is_legal, and Engine::board returns the text that shows it,
\* which is the text of nine dots for the empty board alone.
C28_EngineBoardIsLegal ==
    /\ is_legal(_board)
    /\ ~Illegal(_board)
    /\ Engine_board(_board) = Shown(_board)
    /\ (Engine_board(_board) = [i \in 1..9 |-> 46]) = (_board = {})

\* C28 witness: play_best has returned true for a player who has more marks
\* than the other
C28_Witness ==
    /\ pc = "called"
    /\ last = "play_best"
    /\ ret
    /\ Count(_board, bplayer(who)) > Count(_board, bplayer(~who)) + 2


\* the result main prints for the human h, as main tests the winners, and
\* with the two tests exchanged
Printed(b, h) ==
    IF Engine_is_won(b, ~h) THEN "I win!"
    ELSE IF Engine_is_won(b, h) THEN "You win!"
    ELSE "Game drawn!"
PrintedExchanged(b, h) ==
    IF Engine_is_won(b, h) THEN "You win!"
    ELSE IF Engine_is_won(b, ~h) THEN "I win!"
    ELSE "Game drawn!"

\* C29: on every board made by alternating moves from the empty board, with
\* no move once is_finished holds, at most one player has a line, is_won is
\* not true of the two players, and the result main prints is the same with
\* its two tests exchanged, whichever player the human is.
C29_OneWinner ==
    pc = "test" =>
        /\ ~(HasLine(_board, 0) /\ HasLine(_board, 9))
        /\ ~(is_won(_board, ONE) /\ is_won(_board, TWO))
        /\ ~(Engine_is_won(_board, P_ONE) /\ Engine_is_won(_board, P_TWO))
        /\ \A h \in {FALSE, TRUE} : Printed(_board, h) = PrintedExchanged(_board, h)

\* C29 witness: TWO has completed a line with the eighth mark
C29_Witness ==
    /\ pc = "test"
    /\ HasLine(_board, 9)
    /\ Count(_board, 0) = 4
    /\ Count(_board, 9) = 4


\* C30: every call of Engine::play or Engine::play_best that returns true
\* puts the mark of its player on one cell that was empty and leaves the
\* eight other cells and every bit of the board as they were, and one that
\* returns false leaves the board as it was; no step other than a reset or
\* a set takes a mark away or gives a cell to the other player.
C30_OneCellChanges ==
    [][/\ (pc' = "called" /\ last' \in {"play", "play_best"}) =>
             IF ret'
             THEN \E c \in (0..8) \ Occupied(_board) :
                      /\ _board' = Put(_board, bplayer(who'), c)
                      /\ \A d \in 1..9 :
                             Shown(_board')[d] =
                                 IF d = c + 1 THEN (IF who' = P_ONE THEN 120 ELSE 111)
                                 ELSE Shown(_board)[d]
                      /\ Shown(_board)[c + 1] = 46
             ELSE _board' = _board
       /\ last' \notin {"reset", "set"} =>
             /\ Cells(_board, 0) \subseteq Cells(_board', 0)
             /\ Cells(_board, 9) \subseteq Cells(_board', 9)
             /\ Cells(_board', 0) \cap Cells(_board, 9) = {}
             /\ Cells(_board', 9) \cap Cells(_board, 0) = {}]_vars

\* C30 witness: play has returned true on the last empty cell of a board on
\* which the other player has a line
C30_Witness ==
    /\ pc = "called"
    /\ last = "play"
    /\ ret
    /\ Marks(_board) = 9
    /\ HasLine(_board, bplayer(~who))
    /\ ~HasLine(_board, bplayer(who))

====
